---- MODULE Spec2Model ----
(***************************************************************************)
(* thumbnailr: the S3-triggered thumbnail lambda.                          *)
(*                                                                         *)
(* function_handler (src/main.rs) walks the records of one S3 event and,   *)
(* for each, extracts (bucket, key), downloads the object, builds a        *)
(* thumbnail and uploads it to "<bucket>-thumbs".  The S3 client is the    *)
(* S3Client implementation of GetFile / PutFile (src/s3.rs).               *)
(*                                                                         *)
(* Strings are TLA+ strings; Option<T> is a sequence of length 0 or 1;     *)
(* Result<T, E> is a record [kind, v] with kind "Ok", "Err" or "Panic"     *)
(* (a panic unwinds out of the handler).                                   *)
(***************************************************************************)
EXTENDS Integers, Sequences, FiniteSets, TLC

\* ---------------------------------------------------------------- bounds
MaxBatch == 2          \* longest batch of records in one event
MaxRuns == 2           \* invocations of the handler with the same event

\* ------------------------------------------------------- program constants
TargetSize == 128      \* the size main passes to function_handler

\* ------------------------------------------------------- Option / Result
None == << >>
Some(x) == << x >>

Ok(x) == [kind |-> "Ok", v |-> x]
Err(e) == [kind |-> "Err", v |-> e]
Panicked(e) == [kind |-> "Panic", v |-> e]

\* str::starts_with
starts_with(s, prefix) ==
    /\ Len(s) >= Len(prefix)
    /\ SubSeq(s, 1, Len(prefix)) = prefix

\* ------------------------------------------------------------ input sets
Rec(e, b, k) == [event_name |-> e, bucket_name |-> b, key |-> k]

Created == Some("ObjectCreated:Put")

RecordUniverse ==
    { Rec(Created, Some("a"), Some("k")),
      Rec(Created, Some("a-thumbs"), Some("k")),
      Rec(Some("ObjectRemoved:Delete"), Some("a"), Some("k")),
      Rec(None, Some("a"), Some("k")),
      Rec(Created, None, Some("k")),
      Rec(Created, Some(""), Some("k")),
      Rec(Created, Some("a"), None),
      Rec(Created, Some("a"), Some("")) }

Batches == UNION { [1..n -> RecordUniverse] : n \in 0..MaxBatch }

SourceRefs == { <<"a", "k">>, <<"a-thumbs", "k">> }
DestBuckets == { "a-thumbs", "a-thumbs-thumbs" }
StoreRefs == SourceRefs \cup { <<b, "k">> : b \in DestBuckets }

\* what the buckets may hold before the first invocation
InitialStores ==
    { s \in [StoreRefs -> {None, Some("IMAGE"), Some("JUNK"), Some("NOTHUMB"),
                           Some("BADENC"), Some("THUMBNAIL")}] :
        /\ s[<<"a", "k">>] # Some("THUMBNAIL")
        /\ s[<<"a-thumbs", "k">>] \in {None, Some("THUMBNAIL")}
        /\ s[<<"a-thumbs", "k">>] # None => s[<<"a", "k">>] \in {None, Some("IMAGE")}
        /\ s[<<"a-thumbs-thumbs", "k">>] = None }

\* how a PutObject request to a bucket ends: it is stored, the service
\* answers with an error that carries a message, or the request fails
\* without a service answer (timeout, dispatch failure), so the error
\* metadata carries no message
PutModes == {"stored", "service_error", "no_message"}

\* the faults of one behaviour: at most one bucket refuses uploads, or the
\* body of one object breaks while it is read
FaultChoices ==
    { f \in [bodyFault : SUBSET { <<"a", "k">> }, putMode : [DestBuckets -> PutModes]] :
        /\ Cardinality({ b \in DestBuckets : f.putMode[b] # "stored" }) <= 1
        /\ f.bodyFault # {} => \A b \in DestBuckets : f.putMode[b] = "stored" }

VARIABLES
    records,     \* event.payload.records
    bodyFault,   \* objects whose body stream breaks while it is collected
    putMode,     \* bucket -> how PutObject ends there
    store,       \* the buckets: (bucket, key) -> Option<bytes>
    pc,          \* position of function_handler
    idx,         \* index of the record the for loop is at
    bucket,      \* local of the loop body
    key,         \* local of the loop body
    image,       \* local of the loop body
    thumbnail,   \* local of the loop body
    calls,       \* history: the get_file / get_thumbnail / put_file calls
    log,         \* the tracing::info! events of the handler, one per record outcome
    result,      \* what the invocation returned: "none", "Ok" or "panic"
    run,         \* number of the current invocation
    store0,      \* the buckets when the current invocation started
    prev         \* the buckets at the start and end of the previous invocation

vars == << records, bodyFault, putMode, store, pc, idx, bucket, key, image,
           thumbnail, calls, log, result, run, store0, prev >>

Final == {"done", "panicked"}

\* ------------------------------------------------------ src/main.rs: pure
\* the Option::filter(..).ok_or(..) tests of get_file_props: Some and accepted
EventOk(opt) == opt # None /\ starts_with(opt[1], "ObjectCreated")
NonEmpty(opt) == opt # None /\ opt[1] # ""

\* faulty variant: a record without an event name passes the event filter
get_file_props_absent_event(record) ==
    IF record.event_name # None /\ ~starts_with(record.event_name[1], "ObjectCreated")
    THEN Err("Wrong event")
    ELSE IF ~NonEmpty(record.bucket_name) THEN Err("No bucket name")
    ELSE IF ~NonEmpty(record.key) THEN Err("No object key")
    ELSE Ok(<< record.bucket_name[1], record.key[1] >>)

\* faulty variant: the is_empty filters are missing, only absent names are rejected
get_file_props_empty_names(record) ==
    IF ~EventOk(record.event_name) THEN Err("Wrong event")
    ELSE IF record.bucket_name = None THEN Err("No bucket name")
    ELSE IF record.key = None THEN Err("No object key")
    ELSE Ok(<< record.bucket_name[1], record.key[1] >>)

get_file_props(record) ==
    IF ~EventOk(record.event_name) THEN Err("Wrong event")
    ELSE IF ~NonEmpty(record.bucket_name) THEN Err("No bucket name")
    ELSE IF ~NonEmpty(record.key) THEN Err("No object key")
    ELSE Ok(<< record.bucket_name[1], record.key[1] >>)

\* thumbnailer::create_thumbnails as get_thumbnail uses it: an input that does
\* not decode is an error, otherwise one thumbnail per requested size (the
\* input "NOTHUMB" stands for a run of the library that yields none)
create_thumbnails(vec, sizes) ==
    IF vec \in {"IMAGE", "THUMBNAIL", "BADENC"}
    THEN Ok([i \in 1..Len(sizes) |-> [size |-> sizes[i], from |-> vec]])
    ELSE IF vec = "NOTHUMB" THEN Ok(<< >>)
    ELSE Err("Decoding error")

\* Thumbnail::write_png ("BADENC" stands for an image the encoder rejects)
write_png(thumb) ==
    IF thumb.from = "BADENC" THEN Err("encoding error") ELSE Ok("THUMBNAIL")

get_thumbnail(vec, size) ==
    LET sizes == << << size, size >> >>
        created == create_thumbnails(vec, sizes)
    IN  IF created.kind # "Ok" THEN Err(created.v)
        ELSE IF created.v = << >> THEN Err("No thumbnail created")
        ELSE IF write_png(created.v[Len(created.v)]).kind = "Ok"
             THEN Ok(write_png(created.v[Len(created.v)]).v)
             ELSE Err("Unknown error when Thumbnail::write_png")

\* -------------------------------------------------------- src/s3.rs: S3Client
Client(st, faults, modes) == [store |-> st, bodyFault |-> faults, putMode |-> modes]

Lookup(st, ref) == IF ref \in DOMAIN st THEN st[ref] ELSE None

\* impl GetFile for S3Client
get_file(client, b, k) ==
    IF Lookup(client.store, << b, k >>) = None
    THEN Err("NoSuchKey")
    ELSE IF << b, k >> \in client.bodyFault
         THEN Panicked("called Result::unwrap() on an Err value")
         ELSE Ok(Lookup(client.store, << b, k >>)[1])

PutMode(client, b) == IF b \in DOMAIN client.putMode THEN client.putMode[b] ELSE "service_error"

StoreWith(st, ref, bytes) ==
    [r \in DOMAIN st \cup {ref} |-> IF r = ref THEN Some(bytes) ELSE st[r]]

\* faulty variant: an upload to an existing key appends to the object
put_file_append(client, b, k, bytes) ==
    IF PutMode(client, b) = "stored"
    THEN [res |-> Ok("Uploaded a file with key " \o k \o " into " \o b),
          store |-> StoreWith(client.store, << b, k >>,
                        IF Lookup(client.store, << b, k >>) = None
                        THEN bytes
                        ELSE Lookup(client.store, << b, k >>)[1] \o bytes)]
    ELSE IF PutMode(client, b) = "service_error"
         THEN [res |-> Err("Access Denied"), store |-> client.store]
         ELSE [res |-> Panicked("called Option::unwrap() on a None value"),
               store |-> client.store]

\* impl PutFile for S3Client: the result and the buckets afterwards
put_file(client, b, k, bytes) ==
    IF PutMode(client, b) = "stored"
    THEN [res |-> Ok("Uploaded a file with key " \o k \o " into " \o b),
          store |-> StoreWith(client.store, << b, k >>, bytes)]
    ELSE IF PutMode(client, b) = "service_error"
         THEN [res |-> Err("Access Denied"), store |-> client.store]
         ELSE [res |-> Panicked("called Option::unwrap() on a None value"),
               store |-> client.store]

\* ------------------------------------------- src/main.rs: function_handler
Machine ==
    [records |-> records, bodyFault |-> bodyFault, putMode |-> putMode,
     store |-> store, pc |-> pc, idx |-> idx, bucket |-> bucket, key |-> key,
     image |-> image, thumbnail |-> thumbnail, calls |-> calls, log |-> log,
     result |-> result]

Start(recs, faults, modes, st) ==
    [records |-> recs, bodyFault |-> faults, putMode |-> modes,
     store |-> st, pc |-> "loop", idx |-> 1, bucket |-> "", key |-> "",
     image |-> "", thumbnail |-> "", calls |-> << >>, log |-> << >>,
     result |-> "none"]

ClientOf(m) == Client(m.store, m.bodyFault, m.putMode)

Call(m, op, bytes, res) ==
    [rec |-> m.idx, op |-> op, bucket |-> m.bucket, key |-> m.key,
     bytes |-> bytes, res |-> res]

Logged(m, outcome, msg) ==
    Append(m.log, [rec |-> m.idx, outcome |-> outcome, msg |-> msg])

\* the end of one iteration of the for loop: the locals are dropped
NextRecord(m) ==
    [m EXCEPT !.idx = @ + 1, !.pc = "loop", !.bucket = "", !.key = "",
              !.image = "", !.thumbnail = ""]

\* a panic unwinds out of function_handler
Unwind(m) == [m EXCEPT !.pc = "panicked", !.result = "panic"]

\* let (bucket, key) = match get_file_props(record) ...
ExtractStep(m) ==
    LET props == get_file_props(m.records[m.idx])
    IN  IF props.kind = "Ok"
        THEN [m EXCEPT !.bucket = props.v[1], !.key = props.v[2], !.pc = "get_file"]
        ELSE NextRecord([m EXCEPT !.log =
                 Logged(m, "skipped", "Record skipped with reason: " \o props.v)])

\* faulty variant: a failed download is tried a second time
GetFileStep_retry(m) ==
    LET got == get_file(ClientOf(m), m.bucket, m.key)
        called == [m EXCEPT !.calls = Append(@, Call(m, "get_file", "", got))]
        tried == Cardinality({ n \in DOMAIN m.calls : m.calls[n].rec = m.idx })
    IN  IF got.kind = "Ok"
        THEN [called EXCEPT !.image = got.v, !.pc = "get_thumbnail"]
        ELSE IF got.kind = "Err"
             THEN IF tried = 0
                  THEN called
                  ELSE NextRecord([called EXCEPT !.log =
                           Logged(m, "fetch_failed", "Can not get file from S3: " \o got.v)])
             ELSE Unwind(called)

\* faulty variant: a failed download ends the loop instead of the iteration
GetFileStep_break(m) ==
    LET got == get_file(ClientOf(m), m.bucket, m.key)
        called == [m EXCEPT !.calls = Append(@, Call(m, "get_file", "", got))]
    IN  IF got.kind = "Ok"
        THEN [called EXCEPT !.image = got.v, !.pc = "get_thumbnail"]
        ELSE IF got.kind = "Err"
             THEN [called EXCEPT !.log =
                      Logged(m, "fetch_failed", "Can not get file from S3: " \o got.v),
                      !.pc = "done", !.result = "Ok"]
             ELSE Unwind(called)

\* let image = match client.get_file(&bucket, &key).await ...
GetFileStep(m) ==
    LET got == get_file(ClientOf(m), m.bucket, m.key)
        called == [m EXCEPT !.calls = Append(@, Call(m, "get_file", "", got))]
    IN  IF got.kind = "Ok"
        THEN [called EXCEPT !.image = got.v, !.pc = "get_thumbnail"]
        ELSE IF got.kind = "Err"
             THEN NextRecord([called EXCEPT !.log =
                      Logged(m, "fetch_failed", "Can not get file from S3: " \o got.v)])
             ELSE Unwind(called)

\* faulty variant: a failed transform falls through to the upload with no bytes
GetThumbnailStep_fall_through(m) ==
    LET made == get_thumbnail(m.image, TargetSize)
        called == [m EXCEPT !.calls = Append(@, Call(m, "get_thumbnail", m.image, made))]
    IN  IF made.kind = "Ok"
        THEN [called EXCEPT !.thumbnail = made.v, !.pc = "put_file"]
        ELSE [called EXCEPT !.thumbnail = "", !.pc = "put_file"]

\* let thumbnail = match get_thumbnail(image, size) ...
GetThumbnailStep(m) ==
    LET made == get_thumbnail(m.image, TargetSize)
        called == [m EXCEPT !.calls = Append(@, Call(m, "get_thumbnail", m.image, made))]
    IN  IF made.kind = "Ok"
        THEN [called EXCEPT !.thumbnail = made.v, !.pc = "put_file"]
        ELSE NextRecord([called EXCEPT !.log =
                 Logged(m, "transform_failed", "Can not create thumbnail: " \o made.v)])

\* faulty variant: the "-thumbs" suffix is not pushed, the upload goes to the source bucket
PutFileStep_no_suffix(m) ==
    LET thumbs_bucket == m.bucket
        put == put_file(ClientOf(m), thumbs_bucket, m.key, m.thumbnail)
        called == [m EXCEPT !.store = put.store,
                            !.calls = Append(@, [Call(m, "put_file", m.thumbnail, put.res)
                                                 EXCEPT !.bucket = thumbs_bucket])]
    IN  IF put.res.kind = "Ok"
        THEN NextRecord([called EXCEPT !.log = Logged(m, "stored", put.res.v)])
        ELSE IF put.res.kind = "Err"
             THEN NextRecord([called EXCEPT !.log =
                      Logged(m, "store_failed", "Can not upload thumbnail: " \o put.res.v)])
             ELSE Unwind(called)

\* thumbs_bucket and match client.put_file(&thumbs_bucket, &key, thumbnail).await ...
PutFileStep(m) ==
    LET thumbs_bucket == m.bucket \o "-thumbs"
        put == put_file(ClientOf(m), thumbs_bucket, m.key, m.thumbnail)
        called == [m EXCEPT !.store = put.store,
                            !.calls = Append(@, [Call(m, "put_file", m.thumbnail, put.res)
                                                 EXCEPT !.bucket = thumbs_bucket])]
    IN  IF put.res.kind = "Ok"
        THEN NextRecord([called EXCEPT !.log = Logged(m, "stored", put.res.v)])
        ELSE IF put.res.kind = "Err"
             THEN NextRecord([called EXCEPT !.log =
                      Logged(m, "store_failed", "Can not upload thumbnail: " \o put.res.v)])
             ELSE Unwind(called)

\* the for loop is exhausted: Ok(())
ReturnStep(m) == [m EXCEPT !.pc = "done", !.result = "Ok"]

\* one step of function_handler from position m.pc
StepOf(m) ==
    IF m.pc = "loop"
    THEN IF m.idx <= Len(m.records) THEN ExtractStep(m) ELSE ReturnStep(m)
    ELSE IF m.pc = "get_file" THEN GetFileStep(m)
    ELSE IF m.pc = "get_thumbnail" THEN GetThumbnailStep(m)
    ELSE IF m.pc = "put_file" THEN PutFileStep(m)
    ELSE m

\* function_handler run to its end
RECURSIVE RunFrom(_)
RunFrom(m) == IF m.pc \in Final THEN m ELSE RunFrom(StepOf(m))

\* ------------------------------------------------------------ the machine
Apply(m) ==
    /\ store' = m.store
    /\ pc' = m.pc
    /\ idx' = m.idx
    /\ bucket' = m.bucket
    /\ key' = m.key
    /\ image' = m.image
    /\ thumbnail' = m.thumbnail
    /\ calls' = m.calls
    /\ log' = m.log
    /\ result' = m.result
    /\ UNCHANGED << records, bodyFault, putMode, run, store0, prev >>

Init ==
    /\ records \in Batches
    /\ \E f \in FaultChoices : bodyFault = f.bodyFault /\ putMode = f.putMode
    /\ store \in InitialStores
    /\ pc = "loop"
    /\ idx = 1
    /\ bucket = ""
    /\ key = ""
    /\ image = ""
    /\ thumbnail = ""
    /\ calls = << >>
    /\ log = << >>
    /\ result = "none"
    /\ run = 1
    /\ store0 = store
    /\ prev = [start |-> store, end |-> store]

\* for record in records.into_iter(): there is a next record, or there is none
AtRecord == pc = "loop" /\ idx <= Len(records)

AtEnd == pc = "loop" /\ idx > Len(records)

Extract == AtRecord /\ Apply(ExtractStep(Machine))

GetFile == pc = "get_file" /\ Apply(GetFileStep(Machine))

GetThumbnail == pc = "get_thumbnail" /\ Apply(GetThumbnailStep(Machine))

PutFile == pc = "put_file" /\ Apply(PutFileStep(Machine))

Return == AtEnd /\ Apply(ReturnStep(Machine))

\* the runtime delivers the same event again: a new invocation of the
\* handler on the buckets as the previous one left them
Reinvoke ==
    /\ pc \in Final
    /\ run < MaxRuns
    /\ run' = run + 1
    /\ prev' = [start |-> store0, end |-> store]
    /\ store0' = store
    /\ pc' = "loop"
    /\ idx' = 1
    /\ bucket' = ""
    /\ key' = ""
    /\ image' = ""
    /\ thumbnail' = ""
    /\ calls' = << >>
    /\ log' = << >>
    /\ result' = "none"
    /\ UNCHANGED << records, bodyFault, putMode, store >>

Next == Extract \/ GetFile \/ GetThumbnail \/ PutFile \/ Return \/ Reinvoke

Spec == Init /\ [][Next]_vars

\* ------------------------------------------------------- reading the history
Indices == 1..Len(records)

\* the calls made for record i, in order, without the record's index
CallsOf(m, i) ==
    LET mine == SelectSeq(m.calls, LAMBDA c : c.rec = i)
    IN  [n \in 1..Len(mine) |->
            [op |-> mine[n].op, bucket |-> mine[n].bucket, key |-> mine[n].key,
             bytes |-> mine[n].bytes, res |-> mine[n].res]]

\* the outcomes logged for record i, in order, without the record's index
OutcomesOf(m, i) ==
    LET mine == SelectSeq(m.log, LAMBDA e : e.rec = i)
    IN  [n \in 1..Len(mine) |-> [outcome |-> mine[n].outcome, msg |-> mine[n].msg]]

OpsOf(m, i) == [n \in 1..Len(CallsOf(m, i)) |-> CallsOf(m, i)[n].op]

CallsWith(i, op) == { n \in DOMAIN calls : calls[n].rec = i /\ calls[n].op = op }

Pipeline == << "get_file", "get_thumbnail", "put_file" >>

HasCreationPrefix(opt) ==
    /\ Len(opt) = 1
    /\ \E n \in 0..Len(opt[1]) : SubSeq(opt[1], 1, n) = "ObjectCreated"

Present(opt) == Len(opt) = 1 /\ Len(opt[1]) > 0

ValidRecord(r) == HasCreationPrefix(r.event_name) /\ Present(r.bucket_name) /\ Present(r.key)

Terminal == {"skipped", "fetch_failed", "transform_failed", "store_failed", "stored"}

\* record i was rejected, or one of its calls failed
FailedAt(i) ==
    \/ ~ValidRecord(records[i])
    \/ \E n \in DOMAIN calls : calls[n].rec = i /\ calls[n].res.kind # "Ok"

Without(recs, i) == [n \in 1..(Len(recs) - 1) |-> IF n < i THEN recs[n] ELSE recs[n + 1]]

\* the invocation on the same buckets with record i taken out of the batch
RunWithout(i) == RunFrom(Start(Without(records, i), bodyFault, putMode, store0))

Shifted(i, j) == IF j < i THEN j ELSE j - 1

\* ------------------------------------------------------------------ claims

\* C1: failures are isolated per record: when record i is rejected or one of
\* its calls (get_file, get_thumbnail, put_file) fails, every other record j
\* is processed, and its calls and outcome are those of the invocation on the
\* batch without record i.
C1_FailureIsolation ==
    pc \in Final =>
        \A i \in Indices : FailedAt(i) =>
            \A j \in Indices \ {i} :
                /\ OutcomesOf(Machine, j) # << >>
                /\ CallsOf(Machine, j) = CallsOf(RunWithout(i), Shifted(i, j))
                /\ OutcomesOf(Machine, j) = OutcomesOf(RunWithout(i), Shifted(i, j))

\* C2: every invocation ends with the success outcome Ok(()), whatever
\* get_file, get_thumbnail and put_file do: no per-record error reaches the
\* batch level.
C2_AlwaysSuccess == pc \in Final => result = "Ok"

\* C3: a record whose eventName is absent or does not start with
\* "ObjectCreated" gets no get_file, get_thumbnail or put_file call.
C3_WrongEventNoCalls ==
    \A i \in Indices :
        ~HasCreationPrefix(records[i].event_name) =>
            CallsOf(Machine, i) = << >>

C3_Witness ==
    /\ pc = "done"
    /\ \E i \in Indices : ~HasCreationPrefix(records[i].event_name)
    /\ \E j \in Indices : CallsOf(Machine, j) # << >>

\* C4: a record whose bucket name or object key is absent or empty gets no
\* get_file, get_thumbnail or put_file call, and an empty name is rejected
\* with the same reason as an absent one.
C4_MissingRefNoCalls ==
    \A i \in Indices :
        (~Present(records[i].bucket_name) \/ ~Present(records[i].key)) =>
            /\ CallsOf(Machine, i) = << >>
            /\ (idx > i /\ HasCreationPrefix(records[i].event_name)) =>
                   OutcomesOf(Machine, i) =
                       << [outcome |-> "skipped",
                           msg |-> IF ~Present(records[i].bucket_name)
                                   THEN "Record skipped with reason: No bucket name"
                                   ELSE "Record skipped with reason: No object key"] >>

C4_Witness ==
    /\ pc = "done"
    /\ \E i \in Indices :
           /\ records[i].bucket_name = Some("")
           /\ HasCreationPrefix(records[i].event_name)
           /\ OutcomesOf(Machine, i) # << >>
    /\ \E j \in Indices : CallsOf(Machine, j) # << >>

\* C5: every put_file call goes to the record's bucket followed by "-thumbs",
\* under the record's key unchanged, with the bytes get_thumbnail made of what
\* get_file returned for that record's (bucket, key).
C5_Destination ==
    \A n \in DOMAIN calls :
        calls[n].op = "put_file" =>
            LET r == records[calls[n].rec]
            IN  /\ Present(r.bucket_name) /\ Present(r.key)
                /\ calls[n].bucket = r.bucket_name[1] \o "-thumbs"
                /\ calls[n].key = r.key[1]
                /\ \E g \in DOMAIN calls :
                       /\ g < n
                       /\ calls[g].rec = calls[n].rec
                       /\ calls[g].op = "get_file"
                       /\ calls[g].bucket = r.bucket_name[1]
                       /\ calls[g].key = r.key[1]
                       /\ calls[g].res.kind = "Ok"
                       /\ get_thumbnail(calls[g].res.v, TargetSize) = Ok(calls[n].bytes)

C5_Witness ==
    \E n \in DOMAIN calls :
        /\ calls[n].op = "put_file"
        /\ calls[n].res.kind = "Ok"
        /\ calls[n].bucket = "a-thumbs-thumbs"

\* C6: when get_thumbnail fails for a record, put_file is not called for it;
\* when get_file fails for a record, neither get_thumbnail nor put_file is.
C6_NoCallAfterFailure ==
    \A i \in Indices :
        /\ (\E n \in CallsWith(i, "get_thumbnail") : calls[n].res.kind # "Ok") =>
               CallsWith(i, "put_file") = {}
        /\ (\E n \in CallsWith(i, "get_file") : calls[n].res.kind # "Ok") =>
               CallsWith(i, "get_thumbnail") \cup CallsWith(i, "put_file") = {}

C6_Witness ==
    /\ pc = "done"
    /\ \E i \in Indices : \E n \in CallsWith(i, "get_thumbnail") :
           calls[n].res = Err("No thumbnail created")
    /\ \E i \in Indices : \E n \in CallsWith(i, "get_file") : calls[n].res.kind = "Err"

\* C7: idempotence: when an invocation starts with the source objects of the
\* batch as they were when the previous invocation of the same batch started,
\* it leaves every bucket/key with the content the previous invocation left.
SourcesOf(recs) ==
    { << recs[i].bucket_name[1], recs[i].key[1] >> :
          i \in { i \in DOMAIN recs : ValidRecord(recs[i]) } }

SameSources ==
    \A ref \in SourcesOf(records) : Lookup(store0, ref) = Lookup(prev.start, ref)

C7_Idempotent ==
    (run > 1 /\ pc \in Final /\ SameSources) =>
        \A ref \in DOMAIN store \cup DOMAIN prev.end :
            Lookup(store, ref) = Lookup(prev.end, ref)

C7_Witness ==
    /\ run > 1
    /\ pc = "done"
    /\ SameSources
    /\ Len(records) > 1
    /\ \A i \in Indices : \E n \in CallsWith(i, "put_file") : calls[n].res.kind = "Ok"

\* C8: records are processed one after the other in input order, without
\* retry: the calls of record i all come before those of record i+1, and the
\* calls of one record are get_file, get_thumbnail, put_file in this order,
\* each at most once.
C8_SequentialNoRetry ==
    /\ \A p, q \in DOMAIN calls : p < q => calls[p].rec <= calls[q].rec
    /\ \A n \in DOMAIN calls : calls[n].rec \in Indices /\ calls[n].rec <= idx
    /\ \A i \in Indices :
           /\ Len(OpsOf(Machine, i)) <= Len(Pipeline)
           /\ OpsOf(Machine, i) = SubSeq(Pipeline, 1, Len(OpsOf(Machine, i)))

C8_Witness ==
    /\ pc = "done"
    /\ Len(records) > 1
    /\ OpsOf(Machine, 1) = Pipeline
    /\ OpsOf(Machine, 2) = << "get_file" >>

\* C9: the invocation terminates, and when it returns every record of the
\* batch has exactly one terminal outcome.  Termination is stated with a
\* variant: while the handler runs one of its steps is enabled (the steps are
\* total, so a step is enabled when its position is reached), and every step
\* lowers the number of steps that may be left.
CanStep == AtRecord \/ AtEnd \/ pc \in {"get_file", "get_thumbnail", "put_file"}

StageOf(p) == CASE p = "loop" -> 0 [] p = "get_file" -> 1
                [] p = "get_thumbnail" -> 2 [] p = "put_file" -> 3 [] OTHER -> 0

StepsLeft == IF pc \in Final THEN 0 ELSE 4 * (Len(records) + 1 - idx) - StageOf(pc) + 1

AllRecordsSettled ==
    \A i \in Indices :
        /\ Len(OutcomesOf(Machine, i)) = 1
        /\ OutcomesOf(Machine, i)[1].outcome \in Terminal

C9_TerminatesAllSettled ==
    /\ [](pc \notin Final => StepsLeft > 0 /\ CanStep)
    /\ [][pc \notin Final => StepsLeft' < StepsLeft]_vars
    /\ [](pc = "done" => AllRecordsSettled)

C9_Witness ==
    /\ pc = "done"
    /\ Len(records) > 1
    /\ { log[n].outcome : n \in DOMAIN log } = {"fetch_failed", "stored"}

\* C10: every valid record gets exactly one get_file call, with its own
\* (bucket, key); put_file is called for a record, once, exactly when its
\* extraction, get_file and get_thumbnail succeeded; and there are no more
\* put_file calls than get_file calls, and no more of these than valid
\* records.
C10_ConverseOfSkip ==
    pc \in Final =>
        /\ \A i \in Indices :
               /\ ValidRecord(records[i]) =>
                      /\ Cardinality(CallsWith(i, "get_file")) = 1
                      /\ \A n \in CallsWith(i, "get_file") :
                             /\ calls[n].bucket = records[i].bucket_name[1]
                             /\ calls[n].key = records[i].key[1]
               /\ Cardinality(CallsWith(i, "put_file")) <= 1
               /\ CallsWith(i, "put_file") # {} <=>
                      /\ ValidRecord(records[i])
                      /\ \E n \in CallsWith(i, "get_file") : calls[n].res.kind = "Ok"
                      /\ \E n \in CallsWith(i, "get_thumbnail") : calls[n].res.kind = "Ok"
        /\ Cardinality({ n \in DOMAIN calls : calls[n].op = "put_file" })
               <= Cardinality({ n \in DOMAIN calls : calls[n].op = "get_file" })
        /\ Cardinality({ n \in DOMAIN calls : calls[n].op = "get_file" })
               <= Cardinality({ i \in Indices : ValidRecord(records[i]) })

====
